---- MODULE Spec2Model ----
(***************************************************************************)
(* Model of ark.segmentation.fiber_segmentation.segment_fibers.            *)
(*                                                                         *)
(* One call of segment_fibers is a walk of the program counter pc through  *)
(* the statements of the function; a second call on the same inputs and    *)
(* the same output directory may follow a completed first call.            *)
(*                                                                         *)
(* A channel image is represented by what the numeric library stages make  *)
(* of it: whether its maximum is 0 (zero), and otherwise the basin (1 or   *)
(* 2) the marker-controlled watershed assigns to each pixel (basins).      *)
(* Connected-component labelling, small-object removal, the elementwise    *)
(* product and the region table are computed pixel by pixel.               *)
(***************************************************************************)
EXTENDS Integers, Sequences, FiniteSets, TLC

\* Bounds of the model.
GridH == 2
GridW == 3
MaxFovs == 2
MaxMinSize == 3

VARIABLES
    \* the call's arguments and its environment
    fovs,                \* channel_xr.fovs, in iteration order
    image,               \* fov -> channel image
    min_fiber_size,
    debug,
    props_valid,         \* object_properties holds only recognised names
    nan_raises,          \* the installed library raises on a NaN image
    \* the file system
    out_dir_exists,
    debug_dir_exists,
    label_files,         \* fov -> written <fov>_fiber_labels.tiff
    debug_files,         \* fovs whose debug images are written
    table_file,          \* fiber_object_table.csv
    \* the running call
    pc, i, err,
    fiber_label_images,
    fiber_object_table,
    normalized,
    segmentation, labeled, labeled_filtered,
    returned,
    \* history
    log,                 \* artifacts produced by the current call, in order
    run,                 \* 1: first call, 2: second call
    first,               \* what the first call returned and left on disk
    debug_dir_before     \* whether _debug existed when the current call began

vars == <<fovs, image, min_fiber_size, debug, props_valid, nan_raises,
          out_dir_exists, debug_dir_exists, label_files, debug_files, table_file,
          pc, i, err, fiber_label_images, fiber_object_table, normalized,
          segmentation, labeled, labeled_filtered, returned, log, run, first, debug_dir_before>>

inputs == <<fovs, image, min_fiber_size, debug, props_valid, nan_raises,
            out_dir_exists>>

----------------------------------------------------------------------------
\* Pixel grids

Pixels == (1..GridH) \X (1..GridW)

Grid(v) == [p \in Pixels |-> v]

Adjacent(p, q) ==
    \/ p[1] = q[1] /\ (p[2] - q[2] = 1 \/ q[2] - p[2] = 1)
    \/ p[2] = q[2] /\ (p[1] - q[1] = 1 \/ q[1] - p[1] = 1)

\* row-major position of a pixel
Index(p) == (p[1] - 1) * GridW + p[2]

Values(img) == {img[p] : p \in Pixels}

NonZero(img) == Values(img) \ {0}

Where(img, v) == {p \in Pixels : img[p] = v}

----------------------------------------------------------------------------
\* Channel images

\* the all-zero image; where the library stages do not raise on the NaN
\* image they find no fiber in it
ZeroImage == [zero |-> TRUE, basins |-> Grid(1)]

Img(S) == [zero |-> FALSE, basins |-> [p \in Pixels |-> IF p \in S THEN 2 ELSE 1]]

Images == {ZeroImage} \cup {Img(S) : S \in SUBSET Pixels}

\* A small catalogue: no fiber, one two-pixel fiber, a one-pixel object
\* followed by a two-pixel fiber, and the all-zero image.
SampleImages ==
    { ZeroImage,
      Img({}),
      Img({<<1, 1>>, <<1, 2>>}),
      Img({<<1, 1>>, <<1, 3>>, <<2, 3>>}) }

----------------------------------------------------------------------------
\* The library stages

\* blurred / np.max(blurred): numpy yields NaN for 0 / 0 and raises nothing
Normalize(img) == IF img.zero THEN "nan" ELSE "finite"

\* watershed(elevation_map, threshed): every pixel falls in basin 1 or 2
watershed(img) == img.basins

RECURSIVE Reach(_, _)
Reach(fg, R) ==
    LET R2 == R \cup {q \in fg : \E p \in R : Adjacent(p, q)}
    IN  IF R2 = R THEN R ELSE Reach(fg, R2)

\* the pixel of S that comes first in row-major order
FirstPixel(S) == CHOOSE p \in S : \A q \in S : Index(p) <= Index(q)

RECURSIVE LabelScan(_, _, _)
LabelScan(rest, n, acc) ==
    IF rest = {} THEN acc
    ELSE LET comp == Reach(rest, {FirstPixel(rest)})
         IN  LabelScan(rest \ comp, n + 1,
                       [q \in Pixels |-> IF q \in comp THEN n ELSE acc[q]])

\* ndi.label: 4-connected components of the non-zero pixels, numbered from 1
\* in row-major order of their first pixel
label(seg) == LabelScan({p \in Pixels : seg[p] # 0}, 1, Grid(0))

Count(ar, v) == Cardinality(Where(ar, v))

remove_small_objects_le(ar, min_size) ==
    IF min_size = 0 THEN ar
    ELSE [p \in Pixels |-> IF Count(ar, ar[p]) <= min_size THEN 0 ELSE ar[p]]

\* skimage.morphology.remove_small_objects on an integer label array
remove_small_objects(ar, min_size) ==
    IF min_size = 0 THEN ar
    ELSE [p \in Pixels |-> IF Count(ar, ar[p]) < min_size THEN 0 ELSE ar[p]]

\* remove_small_objects(labeled, min_size) followed by a renumbering 1..k
FilterRenumbered(lab, seg, min_size) ==
    LET kept == remove_small_objects(lab, min_size)
    IN  [p \in Pixels |->
            IF kept[p] = 0 THEN 0
            ELSE Cardinality({v \in NonZero(kept) : v <= kept[p]})]

\* remove_small_objects(labeled, min_size=min_fiber_size) * segmentation
Filter(lab, seg, min_size) ==
    LET kept == remove_small_objects(lab, min_size)
    IN  [p \in Pixels |-> kept[p] * seg[p]]

RECURSIVE Ascending(_)
Ascending(S) ==
    IF S = {} THEN <<>>
    ELSE LET m == CHOOSE x \in S : \A y \in S : x <= y
         IN  <<m>> \o Ascending(S \ {m})

\* regionprops_table: one row per positive label of the image, by label
regionprops_table(img) ==
    LET ls == Ascending({v \in Values(img) : v > 0})
    IN  [k \in 1..Len(ls) |-> [label |-> ls[k]]]

\* fov_table[settings.FOV_ID] = fov
Tag(tbl, fov) == [k \in 1..Len(tbl) |-> [label |-> tbl[k].label, fov |-> fov]]

RECURSIVE Concat(_)
\* pd.concat
Concat(tables) ==
    IF tables = <<>> THEN <<>> ELSE Head(tables) \o Concat(Tail(tables))

----------------------------------------------------------------------------
\* Initial states

NoFile == [exists |-> FALSE, rows |-> <<>>]

NoFirst == [table |-> <<>>, images |-> <<>>, label_files |-> <<>>, table_file |-> NoFile]

Fresh ==
    /\ label_files = <<>>
    /\ debug_files = {}
    /\ table_file = NoFile
    /\ pc = "entry"
    /\ i = 0
    /\ err = "none"
    /\ fiber_label_images = <<>>
    /\ fiber_object_table = <<>>
    /\ normalized = "none"
    /\ segmentation = Grid(0)
    /\ labeled = Grid(0)
    /\ labeled_filtered = Grid(0)
    /\ returned = <<>>
    /\ log = <<>>
    /\ run = 1
    /\ first = NoFirst
    /\ debug_dir_before = debug_dir_exists

\* Any number of fovs up to MaxFovs, images of the catalogue, every setting
Init ==
    /\ \E n \in 0..MaxFovs :
          /\ fovs = [k \in 1..n |-> k]
          /\ image \in [1..n -> SampleImages]
    /\ min_fiber_size \in 0..MaxMinSize
    /\ debug \in BOOLEAN
    /\ props_valid \in BOOLEAN
    /\ nan_raises \in BOOLEAN
    /\ out_dir_exists \in BOOLEAN
    /\ debug_dir_exists \in BOOLEAN
    /\ (debug_dir_exists => out_dir_exists)
    /\ Fresh

\* One fov, every image of the grid
InitImg ==
    /\ fovs = <<1>>
    /\ image \in [{1} -> Images]
    /\ min_fiber_size \in 0..MaxMinSize
    /\ debug = FALSE
    /\ props_valid = TRUE
    /\ nan_raises = FALSE
    /\ out_dir_exists = TRUE
    /\ debug_dir_exists = FALSE
    /\ Fresh

----------------------------------------------------------------------------
\* The statements of segment_fibers

fov == fovs[i]

Raise(e) ==
    /\ pc' = "raised"
    /\ err' = e

\* channel_xr = ...; fiber_label_images = {}; fiber_object_table = []
Entry ==
    /\ pc = "entry"
    /\ fiber_label_images' = <<>>
    /\ fiber_object_table' = <<>>
    /\ pc' = "check_out_dir"
    /\ UNCHANGED <<inputs, debug_dir_exists, label_files, debug_files, table_file,
                   i, err, normalized, segmentation, labeled, labeled_filtered,
                   returned, log, run, first, debug_dir_before>>

CheckOutDirSkipped ==
    /\ pc = "check_out_dir"
    /\ pc' = "make_debug_dir"
    /\ UNCHANGED <<inputs, debug_dir_exists, label_files, debug_files, table_file,
                   i, err, fiber_label_images, fiber_object_table, normalized,
                   segmentation, labeled, labeled_filtered, returned, log, run, first, debug_dir_before>>

\* if not os.path.exists(out_dir): raise FileNotFoundError
CheckOutDir ==
    /\ pc = "check_out_dir"
    /\ IF ~out_dir_exists
       THEN Raise("FileNotFoundError")
       ELSE pc' = "make_debug_dir" /\ err' = err
    /\ UNCHANGED <<inputs, debug_dir_exists, label_files, debug_files, table_file,
                   i, fiber_label_images, fiber_object_table, normalized,
                   segmentation, labeled, labeled_filtered, returned, log, run, first, debug_dir_before>>

\* if debug: os.makedirs(os.path.join(out_dir, '_debug'))
MakeDebugDir ==
    /\ pc = "make_debug_dir"
    /\ IF debug
       THEN IF debug_dir_exists
            THEN Raise("FileExistsError") /\ UNCHANGED debug_dir_exists
            ELSE debug_dir_exists' = TRUE /\ pc' = "loop" /\ err' = err
       ELSE pc' = "loop" /\ UNCHANGED <<err, debug_dir_exists>>
    /\ UNCHANGED <<inputs, label_files, debug_files, table_file,
                   i, fiber_label_images, fiber_object_table, normalized,
                   segmentation, labeled, labeled_filtered, returned, log, run, first, debug_dir_before>>

\* for fov in channel_xr.fovs
LoopHead ==
    /\ pc = "loop"
    /\ IF i < Len(fovs)
       THEN i' = i + 1 /\ pc' = "preprocess"
       ELSE i' = i /\ pc' = "finish"
    /\ UNCHANGED <<inputs, debug_dir_exists, label_files, debug_files, table_file,
                   err, fiber_label_images, fiber_object_table, normalized,
                   segmentation, labeled, labeled_filtered, returned, log, run, first, debug_dir_before>>

\* gaussian_filter; equalize_adapthist(blurred / np.max(blurred), ...)
Preprocess ==
    /\ pc = "preprocess"
    /\ normalized' = Normalize(image[fov])
    /\ pc' = "segment"
    /\ UNCHANGED <<inputs, debug_dir_exists, label_files, debug_files, table_file,
                   i, err, fiber_label_images, fiber_object_table,
                   segmentation, labeled, labeled_filtered, returned, log, run, first, debug_dir_before>>

SegmentGlobalIds ==
    /\ pc = "segment"
    /\ IF normalized = "nan" /\ nan_raises
       THEN /\ Raise("ValueError")
            /\ UNCHANGED <<segmentation, labeled, labeled_filtered>>
       ELSE /\ segmentation' = [p \in Pixels |-> watershed(image[fov])[p] - 1]
            /\ labeled' = LabelScan({p \in Pixels : segmentation'[p] # 0},
                                    1 + Len(Concat(fiber_object_table)), Grid(0))
            /\ labeled_filtered' = Filter(labeled', segmentation', min_fiber_size)
            /\ pc' = "debug_save"
            /\ err' = err
    /\ UNCHANGED <<inputs, debug_dir_exists, label_files, debug_files, table_file,
                   i, fiber_label_images, fiber_object_table, normalized,
                   returned, log, run, first, debug_dir_before>>

\* meijering ... threshold_multiotsu ... watershed(...) - 1; ndi.label;
\* remove_small_objects(...) * segmentation
Segment ==
    /\ pc = "segment"
    /\ IF normalized = "nan" /\ nan_raises
       THEN /\ Raise("ValueError")
            /\ UNCHANGED <<segmentation, labeled, labeled_filtered>>
       ELSE /\ segmentation' = [p \in Pixels |-> watershed(image[fov])[p] - 1]
            /\ labeled' = label(segmentation')
            /\ labeled_filtered' = Filter(labeled', segmentation', min_fiber_size)
            /\ pc' = "debug_save"
            /\ err' = err
    /\ UNCHANGED <<inputs, debug_dir_exists, label_files, debug_files, table_file,
                   i, fiber_label_images, fiber_object_table, normalized,
                   returned, log, run, first, debug_dir_before>>

\* if debug: imsave(<debug_path>/<fov>_*.tiff, ...)
DebugSave ==
    /\ pc = "debug_save"
    /\ debug_files' = IF debug THEN debug_files \cup {fov} ELSE debug_files
    /\ pc' = "save_labels"
    /\ UNCHANGED <<inputs, debug_dir_exists, label_files, table_file,
                   i, err, fiber_label_images, fiber_object_table, normalized,
                   segmentation, labeled, labeled_filtered, returned, log, run, first, debug_dir_before>>

SaveLabelsOverwrite ==
    /\ pc = "save_labels"
    /\ label_files' = (fov :> labeled_filtered) @@ label_files
    /\ fiber_label_images' = (fov :> labeled_filtered)
    /\ log' = Append(log, [ev |-> "label", fov |-> fov])
    /\ pc' = "features"
    /\ UNCHANGED <<inputs, debug_dir_exists, debug_files, table_file,
                   i, err, fiber_object_table, normalized,
                   segmentation, labeled, labeled_filtered, returned, run, first, debug_dir_before>>

\* imsave(<out_dir>/<fov>_fiber_labels.tiff, labeled_filtered);
\* fiber_label_images[fov] = labeled_filtered
SaveLabels ==
    /\ pc = "save_labels"
    /\ label_files' = (fov :> labeled_filtered) @@ label_files
    /\ fiber_label_images' = (fov :> labeled_filtered) @@ fiber_label_images
    /\ log' = Append(log, [ev |-> "label", fov |-> fov])
    /\ pc' = "features"
    /\ UNCHANGED <<inputs, debug_dir_exists, debug_files, table_file,
                   i, err, fiber_object_table, normalized,
                   segmentation, labeled, labeled_filtered, returned, run, first, debug_dir_before>>

FeaturesUnfiltered ==
    /\ pc = "features"
    /\ IF ~props_valid
       THEN Raise("AttributeError") /\ UNCHANGED <<fiber_object_table, log>>
       ELSE /\ fiber_object_table' =
                  Append(fiber_object_table, Tag(regionprops_table(labeled), fov))
            /\ log' = Append(log, [ev |-> "features", fov |-> fov])
            /\ pc' = "loop"
            /\ err' = err
    /\ UNCHANGED <<inputs, debug_dir_exists, label_files, debug_files, table_file,
                   i, fiber_label_images, normalized,
                   segmentation, labeled, labeled_filtered, returned, run, first, debug_dir_before>>

FeaturesThenCsv ==
    /\ pc = "features"
    /\ IF ~props_valid
       THEN Raise("AttributeError")
            /\ UNCHANGED <<fiber_object_table, log, table_file>>
       ELSE LET tables == Append(fiber_object_table,
                                 Tag(regionprops_table(labeled_filtered), fov))
            IN  /\ fiber_object_table' = tables
                /\ table_file' = [exists |-> TRUE, rows |-> Concat(tables)]
                /\ log' = log \o <<[ev |-> "features", fov |-> fov],
                                   [ev |-> "table", fov |-> 0]>>
                /\ pc' = "loop"
                /\ err' = err
    /\ UNCHANGED <<inputs, debug_dir_exists, label_files, debug_files,
                   i, fiber_label_images, normalized,
                   segmentation, labeled, labeled_filtered, returned, run, first, debug_dir_before>>

\* fov_table = pd.DataFrame(regionprops_table(labeled_filtered, properties=...));
\* fov_table[settings.FOV_ID] = fov; fiber_object_table.append(fov_table)
Features ==
    /\ pc = "features"
    /\ IF ~props_valid
       THEN Raise("AttributeError") /\ UNCHANGED <<fiber_object_table, log>>
       ELSE /\ fiber_object_table' =
                  Append(fiber_object_table,
                         Tag(regionprops_table(labeled_filtered), fov))
            /\ log' = Append(log, [ev |-> "features", fov |-> fov])
            /\ pc' = "loop"
            /\ err' = err
    /\ UNCHANGED <<inputs, debug_dir_exists, label_files, debug_files, table_file,
                   i, fiber_label_images, normalized,
                   segmentation, labeled, labeled_filtered, returned, run, first, debug_dir_before>>

\* fiber_object_table = pd.concat(fiber_object_table); to_csv(...); return
Finish ==
    /\ pc = "finish"
    /\ IF fiber_object_table = <<>>
       THEN Raise("ValueError") /\ UNCHANGED <<table_file, returned, log>>
       ELSE /\ returned' = Concat(fiber_object_table)
            /\ table_file' = [exists |-> TRUE, rows |-> Concat(fiber_object_table)]
            /\ log' = Append(log, [ev |-> "table", fov |-> 0])
            /\ pc' = "done"
            /\ err' = err
    /\ UNCHANGED <<inputs, debug_dir_exists, label_files, debug_files,
                   i, fiber_label_images, fiber_object_table, normalized,
                   segmentation, labeled, labeled_filtered, run, first, debug_dir_before>>

\* segment_fibers is called again with the same arguments and the same out_dir
Rerun ==
    /\ pc = "done"
    /\ run = 1
    /\ run' = 2
    /\ first' = [table |-> returned, images |-> fiber_label_images,
                 label_files |-> label_files, table_file |-> table_file]
    /\ pc' = "entry"
    /\ i' = 0
    /\ fiber_label_images' = <<>>
    /\ fiber_object_table' = <<>>
    /\ normalized' = "none"
    /\ segmentation' = Grid(0)
    /\ labeled' = Grid(0)
    /\ labeled_filtered' = Grid(0)
    /\ returned' = <<>>
    /\ log' = <<>>
    /\ debug_dir_before' = debug_dir_exists
    /\ UNCHANGED <<inputs, debug_dir_exists, label_files, debug_files, table_file, err>>

\* one call of segment_fibers
Call ==
    \/ Entry
    \/ CheckOutDir
    \/ MakeDebugDir
    \/ LoopHead
    \/ Preprocess
    \/ Segment
    \/ DebugSave
    \/ SaveLabels
    \/ Features
    \/ Finish

Next ==
    \/ Call
    \/ Rerun

Spec == Init /\ [][Next]_vars

\* a single call on one fov
SpecImg == InitImg /\ [][Call]_vars

----------------------------------------------------------------------------
\* Properties

Connected(S) == S # {} /\ Reach(S, {CHOOSE p \in S : TRUE}) = S

\* the pixels of value v form one 4-connected region touching no other label
OneRegion(img, v) ==
    /\ Connected(Where(img, v))
    /\ \A p \in Where(img, v) : \A q \in Pixels :
          Adjacent(p, q) => img[q] \in {0, v}

Labels(rows) == {rows[k].label : k \in 1..Len(rows)}

\* C1: when the output directory does not exist the call raises
\* FileNotFoundError before any fov is processed: no label image, debug
\* directory, debug image or feature table is written and the label-image
\* mapping stays empty.
C1_FailFastWithoutOutDir ==
    ~out_dir_exists =>
        /\ pc \in {"entry", "check_out_dir", "raised"}
        /\ (pc = "raised" => err = "FileNotFoundError")
        /\ i = 0
        /\ label_files = <<>>
        /\ ~debug_dir_exists
        /\ debug_files = {}
        /\ ~table_file.exists
        /\ fiber_label_images = <<>>
        /\ fiber_object_table = <<>>
        /\ log = <<>>

C1_Witness ==
    /\ ~out_dir_exists
    /\ debug
    /\ Len(fovs) > 0
    /\ pc = "raised"
    /\ err = "FileNotFoundError"

\* C2: _debug is created only when debug is on and it is absent, and its
\* prior existence is not an error: no call ends in FileExistsError; with
\* debug off the directory is left as it was.
C2_ExistingDebugDirIsNoError ==
    /\ (pc = "raised" => err # "FileExistsError")
    /\ (~debug => debug_dir_exists = debug_dir_before)
    /\ (debug_dir_exists # debug_dir_before => debug /\ ~debug_dir_before)

\* C3: for every fov whose features are computed, the rows tagged with it
\* correspond one to one to the non-zero values of its filtered label image,
\* and each such value marks exactly one connected region.
C3_RowsMatchLabels ==
    \A k \in 1..Len(fiber_object_table) :
        LET f    == fovs[k]
            rows == fiber_object_table[k]
            img  == fiber_label_images[f]
        IN  /\ \A r \in 1..Len(rows) : rows[r].fov = f
            /\ Labels(rows) = NonZero(img)
            /\ Len(rows) = Cardinality(NonZero(img))
            /\ \A v \in NonZero(img) : v > 0 /\ OneRegion(img, v)

C3_Witness ==
    /\ pc = "done"
    /\ run = 1
    /\ returned = <<[label |-> 2, fov |-> 1]>>
    /\ Cardinality(NonZero(labeled)) = 2

\* C4: every pixel of the filtered label image is 0 or that pixel's
\* pre-filter label, so filtering introduces no id and renumbers none.
C4_FilterKeepsPreFilterIds ==
    /\ \A p \in Pixels : labeled_filtered[p] \in {0, labeled[p]}
    /\ NonZero(labeled_filtered) \subseteq NonZero(labeled)
    /\ (pc = "features" => fiber_label_images[fov] = labeled_filtered)

C4_Witness ==
    /\ pc = "features"
    /\ NonZero(labeled) = {1, 2}
    /\ NonZero(labeled_filtered) = {2}

\* C5: a fov whose channel image is all zero ends the call in an error at
\* the normalization step; it is never carried past that step and no label
\* image is ever written for it.
C5_ZeroImageRaisesAtNormalization ==
    /\ (i >= 1 /\ image[fovs[i]].zero /\ pc # "preprocess") => pc = "raised"
    /\ \A f \in DOMAIN label_files : ~image[f].zero

Pos(f) == CHOOSE k \in 1..Len(fovs) : fovs[k] = f

RowsOf(tbl, f) == SelectSeq(tbl, LAMBDA r : r.fov = f)

\* C6: after a successful run the label-image mapping has exactly the fovs
\* as keys, and the feature table (returned and written) lists the fovs'
\* rows in iteration order, each tagged with its fov and holding that fov's
\* own labels.
C6_MappingAndTableCoverFovs ==
    pc = "done" =>
        /\ DOMAIN fiber_label_images = {fovs[k] : k \in 1..Len(fovs)}
        /\ table_file = [exists |-> TRUE, rows |-> returned]
        /\ \A a, b \in 1..Len(returned) :
              a < b => Pos(returned[a].fov) <= Pos(returned[b].fov)
        /\ \A r \in 1..Len(returned) : returned[r].fov \in DOMAIN fiber_label_images
        /\ \A f \in DOMAIN fiber_label_images :
              [k \in 1..Len(RowsOf(returned, f)) |-> RowsOf(returned, f)[k].label]
                  = Ascending(NonZero(fiber_label_images[f]))

C6_Witness ==
    /\ pc = "done"
    /\ Len(fovs) = 2
    /\ \E a, b \in 1..Len(returned) :
          /\ returned[a] = [label |-> 1, fov |-> 1]
          /\ returned[b] = [label |-> 1, fov |-> 2]

\* C7: a component of the labeled segmentation survives filtering iff its
\* area is at least min_fiber_size; the fov gets one row per survivor.
C7_KeepIffAreaAtLeastMin ==
    /\ \A v \in NonZero(labeled) :
          IF Count(labeled, v) >= min_fiber_size
          THEN \A p \in Where(labeled, v) : labeled_filtered[p] = v
          ELSE \A p \in Where(labeled, v) : labeled_filtered[p] = 0
    /\ \A p \in Where(labeled, 0) : labeled_filtered[p] = 0
    /\ (min_fiber_size = 0 => labeled_filtered = labeled)
    /\ (i >= 1 /\ Len(fiber_object_table) = i =>
          Len(fiber_object_table[i]) =
              Cardinality({v \in NonZero(labeled) : Count(labeled, v) >= min_fiber_size}))

C7_Witness ==
    /\ pc = "loop"
    /\ NonZero(labeled) # {}
    /\ \A v \in NonZero(labeled) : Count(labeled, v) < min_fiber_size
    /\ NonZero(labeled_filtered) = {}
    /\ fiber_object_table = << <<>> >>

\* C8: a second call on the same input, parameters and output directory
\* completes and returns and writes what the first call did.
C8_RerunReproducesFirstRun ==
    run = 2 =>
        /\ pc # "raised"
        /\ pc = "done" =>
              /\ returned = first.table
              /\ fiber_label_images = first.images
              /\ label_files = first.label_files
              /\ table_file = first.table_file

\* within one call, what is recorded for a fov is never changed afterwards
FovFrame ==
    run' = run =>
        /\ \A f \in DOMAIN fiber_label_images :
              /\ f \in DOMAIN fiber_label_images'
              /\ fiber_label_images'[f] = fiber_label_images[f]
        /\ \A k \in 1..Len(fiber_object_table) :
              /\ k <= Len(fiber_object_table')
              /\ fiber_object_table'[k] = fiber_object_table[k]
        /\ \A f \in DOMAIN label_files :
              /\ f \in DOMAIN label_files'
              /\ (label_files'[f] # label_files[f] => pc = "save_labels" /\ fov = f)

\* the filtered label image of one channel image taken alone
PerFov(img, min_size) ==
    LET seg == [p \in Pixels |-> watershed(img)[p] - 1]
    IN  Filter(label(seg), seg, min_size)

\* a fov's label image is that of its own image taken alone, so two fovs
\* with the same channel image get the same label image and labels
FovIsolated ==
    /\ \A f \in DOMAIN fiber_label_images :
          fiber_label_images[f] = PerFov(image[f], min_fiber_size)
    /\ \A f, g \in DOMAIN fiber_label_images :
          image[f] = image[g] => fiber_label_images[f] = fiber_label_images[g]
    /\ \A a, b \in 1..Len(fiber_object_table) :
          image[fovs[a]] = image[fovs[b]] =>
              Labels(fiber_object_table[a]) = Labels(fiber_object_table[b])

\* C9: a fov's label image and rows depend on its own image and the
\* parameters only, and processing a later fov leaves what earlier fovs
\* produced unchanged.
C9_PerFovIsolation == [](FovIsolated) /\ [][FovFrame]_vars

C9_Witness ==
    /\ pc = "done"
    /\ Len(fovs) = 2
    /\ image[1] = image[2]
    /\ fiber_label_images[1] = fiber_label_images[2]
    /\ NonZero(fiber_label_images[2]) # {}

\* the artifacts of a complete call, in order
ExpectedLog ==
    LET n == Len(fovs)
    IN  [j \in 1..(2 * n + 1) |->
            IF j = 2 * n + 1 THEN [ev |-> "table", fov |-> 0]
            ELSE IF j % 2 = 1 THEN [ev |-> "label", fov |-> fovs[(j + 1) \div 2]]
            ELSE [ev |-> "features", fov |-> fovs[j \div 2]]]

TableWritten == \E j \in 1..Len(log) : log[j].ev = "table"

\* C10: a call writes fov 1's label file, computes fov 1's features, writes
\* fov 2's label file, ..., and writes the feature table once, last; a call
\* that fails at the k-th fov has written the label files of the first k-1
\* fovs (and possibly the k-th), no feature table, and nothing for later fovs.
C10_ArtifactOrder ==
    /\ Len(log) <= Len(ExpectedLog)
    /\ \A j \in 1..Len(log) : log[j] = ExpectedLog[j]
    /\ (TableWritten <=> pc = "done")
    /\ (~TableWritten => table_file = first.table_file)
    /\ (pc = "raised" =>
          /\ (i = 0 => log = <<>>)
          /\ (i >= 1 =>
                /\ 2 * (i - 1) <= Len(log)
                /\ Len(log) <= 2 * i - 1
                /\ \A j \in 1..(i - 1) :
                      /\ fovs[j] \in DOMAIN label_files
                      /\ label_files[fovs[j]] = fiber_label_images[fovs[j]]))

C10_Witness ==
    /\ pc = "raised"
    /\ i = 2
    /\ run = 1
    /\ Len(log) = 2
    /\ 1 \in DOMAIN label_files
    /\ 2 \notin DOMAIN label_files
    /\ ~table_file.exists

====
